---- MODULE Spec2Model ----
(***************************************************************************)
(* A model of the detection fusion engine (app/models/hate_speech_         *)
(* detector.py), the misinformation oracle (app/models/misinformation.py   *)
(* and models/content_analyzer.py) and the detection store                 *)
(* (app/services/realtime_monitor.py).                                     *)
(*                                                                         *)
(* Conventions.  A Python str is a sequence of code points (Nat).  A       *)
(* float confidence is an integer number of tenths (0.7 is 7, 1.0 is 10).  *)
(* A datetime is a number of clock ticks; TicksPerUnit ticks make one unit  *)
(* of the fields isoformat() always prints, the remainder is the fraction  *)
(* it prints only when it is not zero.  A timedelta of the store's queries *)
(* (hours, days) is counted in these units.  None is <<>> and any other    *)
(* value x of an optional field is <<x>>.                                  *)
(***************************************************************************)
EXTENDS Integers, Sequences, FiniteSets, TLC

VARIABLES
    keywords,   \* CameroonKeywordsDetector.keywords, in its set iteration order
    model,      \* the joblib model + vectorizer behind HateSpeechAIClassifier
    now,        \* datetime.now(), in ticks
    ret,        \* the value the last call returned, until time passes or a call starts
    batch,      \* the frame of a running batch_detect call
    environ,    \* os.environ, the four AZURE_OPENAI_* variables
    db,         \* the rows of table detections, in insert order
    kwfile,     \* the file at keywords_path
    seen,       \* per text, the verdict of the first detection of it
    handler,    \* the frame of the request handler the event loop is running
    tasks,      \* the background tasks added and not yet run
    writers,    \* per thread, the frame of its store_detection call
    dblock,     \* the connection holding SQLite's write lock, if any
    threads,    \* per thread, the frame of its get_detector / get_db_manager call
    attrs       \* the attributes get_detector.detector and get_db_manager.db_manager

apiVars == <<handler, tasks>>
connVars == <<writers, dblock>>
singletonVars == <<threads, attrs>>
vars == <<keywords, model, now, ret, batch, environ, db, kwfile, seen,
          apiVars, connVars, singletonVars>>

\* ------------------------------------------------------------------ bounds
MaxTime == 3        \* the last tick of the clock
MaxBatch == 2       \* the longest list given to batch_detect
MaxRows == 2        \* the most rows the store is filled with
MaxThreads == 2     \* the threads of the pool that run at once
MaxLen == 3         \* the longest text given to detect_keywords alone
TicksPerUnit == 2   \* the ticks in one clock unit

\* ------------------------------------------------------------- optional values
None == <<>>
Some(x) == <<x>>

\* ----------------------------------------------------------------- strings
\* str.lower(), on ASCII
Lower(s) == [i \in DOMAIN s |-> IF s[i] \in 65..90 THEN s[i] + 32 ELSE s[i]]

\* a variant that finds sub only at the start of s
Contains_startswith(sub, s) ==
    Len(sub) <= Len(s) /\ SubSeq(s, 1, Len(sub)) = sub

\* `sub in s` for two str
Contains(sub, s) ==
    \E i \in 0..(Len(s) - Len(sub)) : SubSeq(s, i + 1, i + Len(sub)) = sub

Range(f) == {f[i] : i \in DOMAIN f}

\* every order in which a set can be iterated
Orderings(S) ==
    {f \in [1..Cardinality(S) -> S] : \A i, j \in DOMAIN f : i # j => f[i] # f[j]}

\* ---------------------------------------------------------------- inputs
TextOk == <<111, 107>>             \* "ok"
TextBad == <<66, 97, 68>>          \* "BaD"
Texts == {TextOk, TextBad}

\* a JSON scalar of the keyword file
JStr(s) == [type |-> "str", val |-> s]
JNum == [type |-> "num", val |-> <<>>]
JList == [type |-> "list", val |-> <<>>]
KwBad == JStr(<<98, 97, 100>>)     \* "bad"
KwA == JStr(<<65>>)                \* "A"

\* the keyword file: absent, not JSON, or a JSON list
KeywordSources ==
    { [exists |-> FALSE, json |-> FALSE, items |-> <<>>],
      [exists |-> TRUE, json |-> FALSE, items |-> <<>>],
      [exists |-> TRUE, json |-> TRUE, items |-> <<>>],
      [exists |-> TRUE, json |-> TRUE, items |-> <<KwBad>>],
      [exists |-> TRUE, json |-> TRUE, items |-> <<KwBad, KwA, KwBad>>],
      [exists |-> TRUE, json |-> TRUE, items |-> <<KwBad, JNum>>],
      [exists |-> TRUE, json |-> TRUE, items |-> <<KwBad, JList>>] }

\* os.getenv(name): None when unset, else the value, which may be empty
Credentials == {"AZURE_OPENAI_API_KEY", "AZURE_OPENAI_ENDPOINT",
                "AZURE_OPENAI_DEPLOYMENT", "AZURE_OPENAI_API_VERSION"}
Unset == [set |-> FALSE, val |-> <<>>]
EnvValues == {Unset, [set |-> TRUE, val |-> <<>>], [set |-> TRUE, val |-> <<120>>]}

\* what the model and the vectorizer do with one text: raise, or a label and the
\* probability (tenths) of class 1
Probas == {2, 6}
Outcomes ==
    [raises : {TRUE}, pred : {0}, p1 : {2}]
        \cup [raises : {FALSE}, pred : {0, 1}, p1 : Probas]
Models == [hasProba : BOOLEAN, out : [Texts -> Outcomes]]

\* ------------------------------------------------------- keyword matcher
\* a variant that falls back to a built-in list when the file cannot be loaded
load_keywords_builtin(src) ==
    IF ~src.exists \/ ~src.json \/ (\E i \in DOMAIN src.items : src.items[i].type = "list")
    THEN {KwBad}
    ELSE Range(src.items)

\* CameroonKeywordsDetector.load_keywords: set(json.load(f)), or set() when
\* open, json.load or set (an unhashable item) raises
load_keywords(src) ==
    IF ~src.exists \/ ~src.json \/ (\E i \in DOMAIN src.items : src.items[i].type = "list")
    THEN {}
    ELSE Range(src.items)

\* a variant that, inside a batch, answers with the keywords found for the
\* previous text
detect_keywords_cached(text) ==
    IF \E i \in DOMAIN keywords : keywords[i].type # "str"
    THEN [raised |-> TRUE, value |-> <<>>]
    ELSE IF batch.results # <<>>
    THEN [raised |-> FALSE,
          value |-> batch.results[Len(batch.results)].detected_keywords]
    ELSE [raised |-> FALSE,
          value |-> LET hit(kw) == Contains(Lower(kw.val), Lower(text))
                        found == SelectSeq(keywords, hit)
                    IN  [i \in DOMAIN found |-> found[i].val]]

\* CameroonKeywordsDetector.detect_keywords: kw.lower() raises on a keyword that
\* is no str; otherwise the keywords found, in iteration order
detect_keywords(text) ==
    IF \E i \in DOMAIN keywords : keywords[i].type # "str"
    THEN [raised |-> TRUE, value |-> <<>>]
    ELSE [raised |-> FALSE,
          value |-> LET hit(kw) == Contains(Lower(kw.val), Lower(text))
                        found == SelectSeq(keywords, hit)
                    IN  [i \in DOMAIN found |-> found[i].val]]

\* ------------------------------------------------------------ classifier
Max(a, b) == IF a >= b THEN a ELSE b

\* HateSpeechAIClassifier.classify: (pred, conf), conf the largest class
\* probability when the model has predict_proba and 1.0 otherwise
classify(text) ==
    LET o == model.out[text]
    IN  IF o.raises
        THEN [raised |-> TRUE, pred |-> 0, conf |-> 0]
        ELSE [raised |-> FALSE, pred |-> o.pred,
              conf |-> IF model.hasProba THEN Max(o.p1, 10 - o.p1) ELSE 10]

\* ---------------------------------------------------------- fusion engine
\* ", ".join(strs)
RECURSIVE Join(_)
Join(strs) ==
    IF Len(strs) = 0 THEN <<>>
    ELSE IF Len(strs) = 1 THEN strs[1]
    ELSE strs[1] \o <<44, 32>> \o Join(Tail(strs))

\* the result built when the try block left `result` as None
DefaultResult(text, t) ==
    [text |-> text,
     is_hate_speech |-> FALSE,
     confidence |-> 0,
     detected_keywords |-> <<>>,
     category |-> "none",
     severity |-> "none",
     timestamp |-> t,
     explanation |-> [lit |-> "No result - default clean", joined |-> <<>>]]

\* a variant that names a category only for the classifier
category_of_model_only(is_hate, kwHit) ==
    IF is_hate THEN "twitter_model" ELSE "none"

\* a variant in which a keyword match names the category first
category_of_keywords_first(is_hate, kwHit) ==
    IF kwHit THEN "keywords" ELSE IF is_hate THEN "twitter_model" ELSE "none"

\* category = "twitter_model" if is_hate else ("keywords" if detected_keywords else "none")
category_of(is_hate, kwHit) ==
    IF is_hate THEN "twitter_model" ELSE IF kwHit THEN "keywords" ELSE "none"

\* a variant in which a positive classifier alone escalates to high
severity_of_escalated(is_hate, kwHit) ==
    IF is_hate THEN "high" ELSE IF kwHit THEN "medium" ELSE "none"

\* a variant in which a keyword match alone gives high
severity_of_keyword_high(is_hate, kwHit) ==
    IF kwHit THEN "high" ELSE IF is_hate THEN "medium" ELSE "none"

\* severity = "high" if is_hate and detected_keywords else ("medium" if ... else "none")
severity_of(is_hate, kwHit) ==
    IF is_hate /\ kwHit THEN "high" ELSE IF is_hate \/ kwHit THEN "medium" ELSE "none"

\* a variant that reports the classifier's confidence when no signal fired
confidence_of_passthrough(is_hate, kwHit, conf) ==
    IF is_hate \/ ~kwHit THEN conf ELSE 7

\* a variant that reports the classifier's confidence on a keyword-only hit
confidence_of_model(is_hate, kwHit, conf) ==
    IF is_hate \/ kwHit THEN conf ELSE 0

\* confidence=conf if is_hate else (0.7 if detected_keywords else 0.0)
confidence_of(is_hate, kwHit, conf) ==
    IF is_hate THEN conf ELSE IF kwHit THEN 7 ELSE 0

\* the explanation string: a literal, then the joined keywords if any
explanation_of(is_hate, detected) ==
    IF is_hate
    THEN [lit |-> "Detected by Twitter-trained model.", joined |-> <<>>]
    ELSE IF Len(detected) > 0
    THEN [lit |-> "Keyword(s) detected: ", joined |-> Join(detected)]
    ELSE [lit |-> "Clean", joined |-> <<>>]

\* the result built inside the try block from the two signals
FusedResult(text, detected, pred, conf, t) ==
    LET is_hate == pred # 0
        kwHit == Len(detected) > 0
    IN  [text |-> text,
         is_hate_speech |-> is_hate \/ kwHit,
         confidence |-> confidence_of(is_hate, kwHit, conf),
         detected_keywords |-> detected,
         category |-> category_of(is_hate, kwHit),
         severity |-> severity_of(is_hate, kwHit),
         timestamp |-> t,
         explanation |-> explanation_of(is_hate, detected)]

\* a variant that catches the classifier's exception on its own and keeps the
\* keyword signal
detect_hate_speech_keeps_keywords(text, t) ==
    LET kw == detect_keywords(text)
        cl == classify(text)
    IN  IF kw.raised
        THEN [raised |-> FALSE, value |-> DefaultResult(text, t)]
        ELSE IF cl.raised
        THEN [raised |-> FALSE, value |-> FusedResult(text, kw.value, 0, 0, t)]
        ELSE [raised |-> FALSE,
              value |-> FusedResult(text, kw.value, cl.pred, cl.conf, t)]

\* CameroonHateSpeechDetector.detect_hate_speech at time t: whether the call
\* raised, and the result it returned
detect_hate_speech(text, t) ==
    LET kw == detect_keywords(text)
        cl == classify(text)
    IN  IF kw.raised \/ cl.raised
        THEN [raised |-> FALSE, value |-> DefaultResult(text, t)]
        ELSE [raised |-> FALSE,
              value |-> FusedResult(text, kw.value, cl.pred, cl.conf, t)]

\* ---------------------------------------------------------------- state
NoRet == [op |-> "none", arg |-> <<>>, raised |-> FALSE, value |-> <<>>]
IdleBatch == [pc |-> "idle", texts |-> <<>>, results |-> <<>>]

\* the four fields of a result that make its verdict
Verdict(r) == <<r.is_hate_speech, r.category, r.severity, r.confidence>>

\* seen, once detection of text has returned result
Remember(s, text, result) ==
    IF s[text] = None THEN [s EXCEPT ![text] = Some(Verdict(result))] ELSE s

Threads == 1..MaxThreads

\* no request is being served and no background task is pending
IdleHandler == [pc |-> "idle"]
NoRequests ==
    /\ handler = IdleHandler
    /\ tasks = <<>>

\* no thread is inside store_detection
IdleWriter == [pc |-> "idle"]
NoWriters ==
    /\ writers = [w \in Threads |-> IdleWriter]
    /\ dblock = None

\* no thread is inside get_detector or get_db_manager, and neither has run
IdleThread == [pc |-> "idle"]
NoGetters ==
    /\ threads = [t \in Threads |-> IdleThread]
    /\ attrs = [detector |-> None, db_manager |-> None]

\* CameroonHateSpeechDetector.__init__: the keywords of the file at
\* keywords_path and the model at model_path
InitDetector ==
    /\ kwfile \in KeywordSources
    /\ keywords \in Orderings(load_keywords(kwfile))
    /\ model \in Models
    /\ seen = [t \in Texts |-> None]

\* a process that only runs the detector: no credential set, an empty store
Init ==
    /\ InitDetector
    /\ now = 0
    /\ ret = NoRet
    /\ batch = IdleBatch
    /\ environ = [c \in Credentials |-> Unset]
    /\ db = <<>>
    /\ NoRequests
    /\ NoWriters
    /\ NoGetters

\* the clock advances
Tick ==
    /\ now < MaxTime
    /\ now' = now + 1
    /\ ret' = NoRet
    /\ UNCHANGED <<keywords, model, batch, environ, db, kwfile, seen, apiVars, connVars, singletonVars>>

\* one call detect_hate_speech(text)
DetectHateSpeech ==
    \E text \in Texts :
        /\ batch.pc = "idle"
        /\ LET r == detect_hate_speech(text, now)
           IN  /\ ret' = [op |-> "detect_hate_speech", arg |-> text,
                           raised |-> r.raised, value |-> r.value]
               /\ seen' = Remember(seen, text, r.value)
        /\ UNCHANGED <<keywords, model, now, batch, environ, db, kwfile, apiVars, connVars, singletonVars>>

\* batch_detect(texts): results = []
BatchTexts == UNION {[1..n -> Texts] : n \in 0..MaxBatch}

BatchDetectCall ==
    \E texts \in BatchTexts :
        /\ batch.pc = "idle"
        /\ batch' = [pc |-> "loop", texts |-> texts, results |-> <<>>]
        /\ ret' = NoRet
        /\ UNCHANGED <<keywords, model, now, environ, db, kwfile, seen, apiVars, connVars, singletonVars>>

\* a variant that inserts at the front
BatchAppend_front(results, result) == <<result>> \o results

\* results.append(result)
BatchAppend(results, result) == Append(results, result)

\* one iteration of `for text in texts`; an exception of detect_hate_speech
\* would end the call
BatchDetectIter ==
    /\ batch.pc = "loop"
    /\ Len(batch.results) < Len(batch.texts)
    /\ LET text == batch.texts[Len(batch.results) + 1]
           r == detect_hate_speech(text, now)
       IN  IF r.raised
           THEN /\ ret' = [op |-> "batch_detect", arg |-> batch.texts,
                           raised |-> TRUE, value |-> <<>>]
                /\ batch' = IdleBatch
                /\ seen' = seen
           ELSE /\ batch' = [batch EXCEPT !.results = BatchAppend(@, r.value)]
                /\ ret' = ret
                /\ seen' = Remember(seen, text, r.value)
    /\ UNCHANGED <<keywords, model, now, environ, db, kwfile, apiVars, connVars, singletonVars>>

\* return results
BatchDetectReturn ==
    /\ batch.pc = "loop"
    /\ Len(batch.results) = Len(batch.texts)
    /\ ret' = [op |-> "batch_detect", arg |-> batch.texts,
               raised |-> FALSE, value |-> batch.results]
    /\ batch' = IdleBatch
    /\ UNCHANGED <<keywords, model, now, environ, db, kwfile, seen, apiVars, connVars, singletonVars>>

Next ==
    \/ Tick
    \/ DetectHateSpeech
    \/ BatchDetectCall
    \/ BatchDetectIter
    \/ BatchDetectReturn

Spec == Init /\ [][Next]_vars

\* ============================================================ misinformation
\* str.strip(): without its leading and trailing whitespace
IsSpace(c) == c \in (9..13) \cup (28..32)

Strip(s) ==
    LET keep == {i \in DOMAIN s : ~IsSpace(s[i])}
    IN  IF keep = {} THEN <<>>
        ELSE LET lo == CHOOSE i \in keep : \A j \in keep : i <= j
                 hi == CHOOSE i \in keep : \A j \in keep : i >= j
             IN  SubSeq(s, lo, hi)

\* a value that an `if` takes as true
Truthy(v) == v.set /\ Len(v.val) > 0

\* result["choices"][0]["message"]["content"] of a response body: not JSON, no
\* such path, null, or a str (word: the same answer written trimmed and in
\* lower case)
BadBodies ==
    { [parse |-> "not_json", content |-> <<>>, word |-> ""],
      [parse |-> "no_choices", content |-> <<>>, word |-> ""],
      [parse |-> "null_content", content |-> <<>>, word |-> ""] }
Answers ==
    {
      [parse |-> "ok", content |-> <<102, 97, 108, 115, 101>>, word |-> "false"],   \* 'false'
      [parse |-> "ok", content |-> <<32, 70, 97, 108, 115, 101, 10>>, word |-> "false"],   \* ' False\n'
      [parse |-> "ok", content |-> <<70, 65, 76, 83, 69>>, word |-> "false"],   \* 'FALSE'
      [parse |-> "ok", content |-> <<117, 110, 118, 101, 114, 105, 102, 105, 97, 98, 108, 101>>, word |-> "unverifiable"],   \* 'unverifiable'
      [parse |-> "ok", content |-> <<85, 110, 118, 101, 114, 105, 102, 105, 97, 98, 108, 101, 32, 9>>, word |-> "unverifiable"],   \* 'Unverifiable \t'
      [parse |-> "ok", content |-> <<116, 114, 117, 101>>, word |-> "true"],   \* 'true'
      [parse |-> "ok", content |-> <<84, 114, 117, 101, 46>>, word |-> "true."],   \* 'True.'
      [parse |-> "ok", content |-> <<>>, word |-> ""],   \* ''
      [parse |-> "ok", content |-> <<102, 97, 108, 32, 115, 101>>, word |-> "fal se"],   \* 'fal se'
      [parse |-> "ok", content |-> <<109, 97, 121, 98, 101>>, word |-> "maybe"] }   \* 'maybe'
StatusCodes == {200, 500}

\* what requests.post does: raise (timeout, connection error) or a response
RemoteOutcomes ==
    {[kind |-> "exception", status |-> 0, body |-> CHOOSE b \in BadBodies : TRUE]}
        \cup [kind : {"response"}, status : StatusCodes, body : BadBodies \cup Answers]

StrFalse == <<102, 97, 108, 115, 101>>                   \* "false"
StrUnverifiable == <<117, 110, 118, 101, 114, 105, 102, 105, 97, 98, 108, 101>>   \* "unverifiable"

Misinformation == <<"misinformation", 7, "medium">>
Unverified == <<"unverified", 0, "unknown">>
NoMisinformation == <<"no_misinformation", 0, "low">>

\* a variant that compares the answer as the service wrote it
predict_app_raw(text, outcome) ==
    IF \A c \in Credentials : Truthy(environ[c])
    THEN IF outcome.kind = "exception"
         THEN [raised |-> FALSE, sent |-> TRUE, value |-> Unverified]
         ELSE IF outcome.status = 200
         THEN IF outcome.body.parse # "ok"
              THEN [raised |-> FALSE, sent |-> TRUE, value |-> Unverified]
              ELSE LET answer == outcome.body.content
                   IN  [raised |-> FALSE, sent |-> TRUE,
                        value |-> IF answer = StrFalse THEN Misinformation
                                  ELSE IF answer = StrUnverifiable THEN Unverified
                                  ELSE NoMisinformation]
         ELSE [raised |-> FALSE, sent |-> TRUE, value |-> Unverified]
    ELSE [raised |-> FALSE, sent |-> FALSE, value |-> Unverified]

\* MisinformationAnalyzer.predict of app/models/misinformation.py: whether it
\* raised, whether it issued the request, and the triple it returned
predict_app(text, outcome) ==
    IF \A c \in Credentials : Truthy(environ[c])
    THEN IF outcome.kind = "exception"
         THEN [raised |-> FALSE, sent |-> TRUE, value |-> Unverified]
         ELSE IF outcome.status = 200
         THEN IF outcome.body.parse # "ok"
              THEN [raised |-> FALSE, sent |-> TRUE, value |-> Unverified]
              ELSE LET answer == Lower(Strip(outcome.body.content))
                   IN  [raised |-> FALSE, sent |-> TRUE,
                        value |-> IF answer = StrFalse THEN Misinformation
                                  ELSE IF answer = StrUnverifiable THEN Unverified
                                  ELSE NoMisinformation]
         ELSE [raised |-> FALSE, sent |-> TRUE, value |-> Unverified]
    ELSE [raised |-> FALSE, sent |-> FALSE, value |-> Unverified]

\* a variant that reads the body of any response, whatever its status
predict_ca_any_status(text, outcome) ==
    IF \A c \in Credentials : Truthy(environ[c])
    THEN IF outcome.kind = "exception"
         THEN [raised |-> FALSE, sent |-> TRUE, value |-> Unverified]
         ELSE IF outcome.body.parse # "ok"
              THEN [raised |-> FALSE, sent |-> TRUE, value |-> Unverified]
              ELSE LET answer == Lower(Strip(outcome.body.content))
                   IN  [raised |-> FALSE, sent |-> TRUE,
                        value |-> IF answer = StrFalse THEN Misinformation
                                  ELSE IF answer = StrUnverifiable THEN Unverified
                                  ELSE NoMisinformation]
    ELSE [raised |-> FALSE, sent |-> FALSE, value |-> Unverified]

\* a variant that takes a failed remote call for a claim that passed
predict_ca_optimistic(text, outcome) ==
    IF \A c \in Credentials : Truthy(environ[c])
    THEN IF outcome.kind = "exception"
         THEN [raised |-> FALSE, sent |-> TRUE, value |-> NoMisinformation]
         ELSE IF outcome.status = 200
         THEN IF outcome.body.parse # "ok"
              THEN [raised |-> FALSE, sent |-> TRUE, value |-> Unverified]
              ELSE LET answer == Lower(Strip(outcome.body.content))
                   IN  [raised |-> FALSE, sent |-> TRUE,
                        value |-> IF answer = StrFalse THEN Misinformation
                                  ELSE IF answer = StrUnverifiable THEN Unverified
                                  ELSE NoMisinformation]
         ELSE [raised |-> FALSE, sent |-> TRUE, value |-> Unverified]
    ELSE [raised |-> FALSE, sent |-> FALSE, value |-> Unverified]

\* MisinformationAnalyzer.predict of models/content_analyzer.py
predict_ca(text, outcome) ==
    IF \A c \in Credentials : Truthy(environ[c])
    THEN IF outcome.kind = "exception"
         THEN [raised |-> FALSE, sent |-> TRUE, value |-> Unverified]
         ELSE IF outcome.status = 200
         THEN IF outcome.body.parse # "ok"
              THEN [raised |-> FALSE, sent |-> TRUE, value |-> Unverified]
              ELSE LET answer == Lower(Strip(outcome.body.content))
                   IN  [raised |-> FALSE, sent |-> TRUE,
                        value |-> IF answer = StrFalse THEN Misinformation
                                  ELSE IF answer = StrUnverifiable THEN Unverified
                                  ELSE NoMisinformation]
         ELSE [raised |-> FALSE, sent |-> TRUE, value |-> Unverified]
    ELSE [raised |-> FALSE, sent |-> FALSE, value |-> Unverified]

\* a process that only runs the oracle: the detector is not loaded
UnloadedModel ==
    [hasProba |-> FALSE, out |-> [t \in Texts |-> [raises |-> TRUE, pred |-> 0, p1 |-> 2]]]

InitMisinfo ==
    /\ environ \in [Credentials -> EnvValues]
    /\ kwfile = CHOOSE src \in KeywordSources : ~src.exists
    /\ seen = [t \in Texts |-> None]
    /\ NoRequests
    /\ NoWriters
    /\ NoGetters
    /\ keywords = <<>>
    /\ model = UnloadedModel
    /\ now = 0
    /\ ret = NoRet
    /\ batch = IdleBatch
    /\ db = <<>>

\* one call predict(text) of app/models/misinformation.py
PredictApp ==
    \E text \in Texts, outcome \in RemoteOutcomes :
        /\ LET r == predict_app(text, outcome)
           IN  ret' = [op |-> "predict",
                       arg |-> [impl |-> "app/models/misinformation.py", text |-> text,
                                outcome |-> outcome, sent |-> r.sent],
                       raised |-> r.raised, value |-> r.value]
        /\ UNCHANGED <<keywords, model, now, batch, environ, db, kwfile, seen, apiVars, connVars, singletonVars>>

\* one call predict(text) of models/content_analyzer.py
PredictCA ==
    \E text \in Texts, outcome \in RemoteOutcomes :
        /\ LET r == predict_ca(text, outcome)
           IN  ret' = [op |-> "predict",
                       arg |-> [impl |-> "models/content_analyzer.py", text |-> text,
                                outcome |-> outcome, sent |-> r.sent],
                       raised |-> r.raised, value |-> r.value]
        /\ UNCHANGED <<keywords, model, now, batch, environ, db, kwfile, seen, apiVars, connVars, singletonVars>>

NextMisinfo ==
    \/ PredictApp
    \/ PredictCA

SpecMisinfo == InitMisinfo /\ [][NextMisinfo]_vars

\* ============================================================ detection store
\* datetime.isoformat(): "T", the units in two digits, and "." with the
\* fraction only when the fraction is not zero
IsoFormat(t) ==
    LET u == t \div TicksPerUnit
        f == t % TicksPerUnit
    IN  <<84, 48 + (u \div 10), 48 + (u % 10)>>
            \o (IF f = 0 THEN <<>> ELSE <<46, 48 + f>>)

\* a < b for two TEXT values of SQLite (BINARY collation: memcmp, then length)
StrLess(a, b) ==
    \/ \E i \in 1..Len(a) :
            /\ i <= Len(b)
            /\ a[i] < b[i]
            /\ \A j \in 1..(i - 1) : a[j] = b[j]
    \/ /\ Len(a) < Len(b)
       /\ \A j \in 1..Len(a) : a[j] = b[j]

\* json.dumps(a list of str)
JsonDumps(strs) ==
    <<91>> \o Join([i \in DOMAIN strs |-> <<34>> \o strs[i] \o <<34>>]) \o <<93>>

\* the metadata argument of store_detection: None, or a dict
NoMetadata == [user_id |-> None, platform |-> None, post_id |-> None]
MetadataArgs ==
    { None,
      Some([user_id |-> Some("u1"), platform |-> Some("twitter"), post_id |-> None]) }

\* the row store_detection inserts, with the id AUTOINCREMENT gives it
InsertedRow(id, result, metadata) ==
    LET md == IF metadata = None THEN NoMetadata ELSE metadata[1]
    IN  [id |-> id,
         text |-> result.text,
         is_hate_speech |-> IF result.is_hate_speech THEN 1 ELSE 0,
         confidence |-> result.confidence,
         detected_keywords |-> JsonDumps(result.detected_keywords),
         category |-> result.category,
         severity |-> result.severity,
         explanation |-> result.explanation,
         timestamp |-> IsoFormat(result.timestamp),
         user_id |-> md.user_id,
         platform |-> md.platform,
         post_id |-> md.post_id]

\* a variant that replaces the stored row of the same text (INSERT OR REPLACE
\* with text as the key)
ExecuteInsert_replace(rows, result, metadata) ==
    IF \E i \in DOMAIN rows : rows[i].text = result.text
    THEN LET i == CHOOSE i \in DOMAIN rows : rows[i].text = result.text
         IN  [rows EXCEPT ![i] = InsertedRow(rows[i].id, result, metadata)]
    ELSE Append(rows, InsertedRow(Len(rows) + 1, result, metadata))

\* INSERT INTO detections ... and commit: one row more; no row is ever
\* deleted, so AUTOINCREMENT gives the next id
ExecuteInsert(rows, result, metadata) ==
    Append(rows, InsertedRow(Len(rows) + 1, result, metadata))

\* datetime.now() - timedelta(hours=hours), and the same for days
CutoffTime(window) == IsoFormat(now - window * TicksPerUnit)

\* a variant whose window includes the cutoff instant
recent_where_inclusive(row, cutoff_time, hate_only) ==
    /\ ~StrLess(row.timestamp, cutoff_time)
    /\ hate_only => row.is_hate_speech = 1

\* WHERE timestamp > ? [AND is_hate_speech = 1]
recent_where(row, cutoff_time, hate_only) ==
    /\ StrLess(cutoff_time, row.timestamp)
    /\ hate_only => row.is_hate_speech = 1

\* a variant whose window includes the cutoff instant (timestamp >= ?)
stats_where_inclusive(row, cutoff_time) == ~StrLess(row.timestamp, cutoff_time)

\* a variant without the WHERE clause
stats_where_all(row, cutoff_time) == TRUE

\* WHERE timestamp > ?
stats_where(row, cutoff_time) == StrLess(cutoff_time, row.timestamp)

\* ORDER BY timestamp DESC: every order of the rows S with no timestamp
\* before a larger one
OrderByTimestampDesc(S) ==
    {f \in Orderings(S) :
        \A k \in 1..(Cardinality(S) - 1) : ~StrLess(db[f[k]].timestamp, db[f[k + 1]].timestamp)}

\* GROUP BY category, platform
GroupKey(row) == <<row.category, row.platform>>

\* a detector that loaded its keyword file and a model that answers
StoreModels ==
    {m \in Models : m.hasProba /\ \A t \in Texts : ~m.out[t].raises /\ m.out[t].p1 = 6}

\* DatabaseManager.__init__ on a new database file
InitStore ==
    /\ kwfile = [exists |-> TRUE, json |-> TRUE, items |-> <<KwBad>>]
    /\ seen = [t \in Texts |-> None]
    /\ keywords = <<KwBad>>
    /\ model \in StoreModels
    /\ now = 0
    /\ ret = NoRet
    /\ batch = IdleBatch
    /\ environ = [c \in Credentials |-> Unset]
    /\ db = <<>>
    /\ NoRequests
    /\ NoWriters
    /\ NoGetters

\* store_detection(result, metadata) for a result detect_hate_speech returned
\* at some earlier time; sqlite3 may raise (ok = FALSE) before the commit, and
\* a call that raised is recorded without its arguments
StoreDetection ==
    \E text \in Texts, t \in 0..now, metadata \in MetadataArgs, ok \in BOOLEAN :
        /\ Len(db) < MaxRows
        /\ LET result == detect_hate_speech(text, t).value
           IN  IF ok
               THEN /\ db' = ExecuteInsert(db, result, metadata)
                    /\ ret' = [op |-> "store_detection",
                               arg |-> [result |-> result, metadata |-> metadata],
                               raised |-> FALSE, value |-> <<>>]
               ELSE /\ db' = db
                    /\ ret' = [op |-> "store_detection", arg |-> <<>>,
                               raised |-> TRUE, value |-> <<>>]
        /\ UNCHANGED <<keywords, model, now, batch, environ, kwfile, seen, apiVars, connVars, singletonVars>>

\* init_database() on the database that exists: both CREATE TABLE IF NOT
\* EXISTS find their table
InitDatabase ==
    /\ ret' = [op |-> "init_database", arg |-> <<>>, raised |-> FALSE, value |-> <<>>]
    /\ UNCHANGED <<keywords, model, now, batch, environ, db, kwfile, seen,
                   apiVars, connVars, singletonVars>>

\* get_recent_detections(hours, hate_only)
GetRecentDetections ==
    \E hours \in 0..(MaxTime \div TicksPerUnit), hate_only \in BOOLEAN :
        /\ hours * TicksPerUnit <= now
        /\ LET cutoff_time == CutoffTime(hours)
               selected == {i \in DOMAIN db : recent_where(db[i], cutoff_time, hate_only)}
           IN  \E f \in OrderByTimestampDesc(selected) :
                   ret' = [op |-> "get_recent_detections",
                           arg |-> [hours |-> hours, hate_only |-> hate_only],
                           raised |-> FALSE,
                           value |-> [k \in DOMAIN f |-> db[f[k]]]]
        /\ UNCHANGED <<keywords, model, now, batch, environ, db, kwfile, seen, apiVars, connVars, singletonVars>>

\* get_statistics(days)
GetStatistics ==
    \E days \in 0..(MaxTime \div TicksPerUnit) :
        /\ days * TicksPerUnit <= now
        /\ LET cutoff_time == CutoffTime(days)
               rows == {i \in DOMAIN db : stats_where(db[i], cutoff_time)}
               keys == {GroupKey(db[i]) : i \in rows}
           IN  \E g \in Orderings(keys) :
                   ret' = [op |-> "get_statistics",
                           arg |-> [days |-> days],
                           raised |-> FALSE,
                           value |->
                             [period_days |-> days,
                              breakdown |->
                                [k \in DOMAIN g |->
                                   [total |-> Cardinality({i \in rows : GroupKey(db[i]) = g[k]}),
                                    hate_speech |-> Cardinality({i \in rows :
                                        GroupKey(db[i]) = g[k] /\ db[i].is_hate_speech = 1}),
                                    category |-> g[k][1],
                                    platform |-> g[k][2]]]]]
        /\ UNCHANGED <<keywords, model, now, batch, environ, db, kwfile, seen, apiVars, connVars, singletonVars>>

NextStore ==
    \/ Tick
    \/ StoreDetection
    \/ InitDatabase
    \/ GetRecentDetections
    \/ GetStatistics

SpecStore == InitStore /\ [][NextStore]_vars

\* ========================================================== keyword matcher
\* the letters of the texts: "A", "a", "b"
Alphabet == {65, 97, 98}

RECURSIVE StringsUpTo(_)
StringsUpTo(n) ==
    IF n = 0 THEN {<<>>}
    ELSE LET shorter == StringsUpTo(n - 1)
         IN  shorter \cup {Append(s, c) : s \in shorter, c \in Alphabet}

KeywordTexts == StringsUpTo(MaxLen)

\* the entries a keyword file is made of: "a", "A", "AB" and ""
KeywordCandidates ==
    {JStr(<<97>>), KwA, JStr(<<65, 66>>), JStr(<<>>)}

\* keyword files that are JSON lists of strings
KeywordFiles ==
    { [exists |-> TRUE, json |-> TRUE, items |-> CHOOSE f \in Orderings(S) : TRUE] :
        S \in SUBSET KeywordCandidates }

\* a process that holds only a CameroonKeywordsDetector
InitKeywords ==
    /\ kwfile \in KeywordFiles
    /\ keywords \in Orderings(load_keywords(kwfile))
    /\ model = UnloadedModel
    /\ seen = [t \in Texts |-> None]
    /\ now = 0
    /\ ret = NoRet
    /\ batch = IdleBatch
    /\ environ = [c \in Credentials |-> Unset]
    /\ db = <<>>
    /\ NoRequests
    /\ NoWriters
    /\ NoGetters

\* one call detect_keywords(text)
DetectKeywords ==
    \E text \in KeywordTexts :
        /\ LET r == detect_keywords(text)
           IN  ret' = [op |-> "detect_keywords", arg |-> text,
                       raised |-> r.raised, value |-> r.value]
        /\ UNCHANGED <<keywords, model, now, batch, environ, db, kwfile, seen,
                       apiVars, connVars, singletonVars>>

NextKeywords == DetectKeywords

SpecKeywords == InitKeywords /\ [][NextKeywords]_vars

\* ================================================================ endpoints
\* the detector get_detector built: the keyword file holds "bad", and the
\* model has predict_proba
ApiSources ==
    {src \in KeywordSources : src.items = <<KwBad>>}
ApiModels ==
    {m \in Models :
        m.hasProba /\ \A t \in Texts : m.out[t].raises \/ m.out[t].p1 = 6}

\* the bodies of the two POST requests: TextAnalysisRequest (one text) and
\* BatchAnalysisRequest (min_items=1)
Users ==
    { [user_id |-> None, platform |-> None],
      [user_id |-> Some("u1"), platform |-> Some("twitter")] }
ApiTexts(kind) ==
    IF kind = "analyze_text"
    THEN {<<t>> : t \in Texts}
    ELSE UNION {[1..n -> Texts] : n \in 1..MaxBatch}
ApiRequests ==
    UNION { [kind : {kind}, texts : ApiTexts(kind), store : BOOLEAN, user : Users] :
              kind \in {"analyze_text", "analyze_batch"} }

\* batch_detect(texts) as one call at time t
batch_detect(texts, t) ==
    [i \in DOMAIN texts |-> detect_hate_speech(texts[i], t).value]

\* convert_result_to_response(result, processing_time), without the time
convert_result_to_response(result) ==
    [text |-> result.text,
     is_hate_speech |-> result.is_hate_speech,
     confidence |-> result.confidence,
     category |-> result.category,
     severity |-> result.severity,
     detected_keywords |-> result.detected_keywords,
     explanation |-> result.explanation,
     timestamp |-> result.timestamp]

\* d[k] = d.get(k, 0) + 1 on a dict
DictIncr(d, k) ==
    [x \in (DOMAIN d) \cup {k} |->
        IF x = k THEN (IF k \in DOMAIN d THEN d[k] ELSE 0) + 1 ELSE d[x]]

\* hate_count = 0, categories = {}, severities = {}
EmptyAgg == [hate_count |-> 0, categories |-> <<>>, severities |-> <<>>]

\* a variant that counts every result in the two histograms
aggregate_step_all(acc, result) ==
    [hate_count |-> acc.hate_count + (IF result.is_hate_speech THEN 1 ELSE 0),
     categories |-> DictIncr(acc.categories, result.category),
     severities |-> DictIncr(acc.severities, result.severity)]

\* the body of `for result in results:` of analyze_batch, without api_results
aggregate_step(acc, result) ==
    IF result.is_hate_speech
    THEN [hate_count |-> acc.hate_count + 1,
          categories |-> DictIncr(acc.categories, result.category),
          severities |-> DictIncr(acc.severities, result.severity)]
    ELSE acc

RECURSIVE Aggregate(_, _)
Aggregate(results, acc) ==
    IF results = <<>> THEN acc
    ELSE Aggregate(Tail(results), aggregate_step(acc, Head(results)))

\* the metadata dict both handlers build; store_detection reads three keys
ApiMetadata(user) ==
    Some([user_id |-> user.user_id, platform |-> user.platform, post_id |-> None])

\* a variant that queues a write for each text before it was analysed
add_tasks_undetected(texts, results, metadata, t) ==
    [i \in DOMAIN texts |-> [result |-> DefaultResult(texts[i], t), metadata |-> metadata]]

\* a variant that queues the write of the first result only
add_tasks_first_only(texts, results, metadata, t) ==
    <<[result |-> results[1], metadata |-> metadata]>>

\* background_tasks.add_task(db.store_detection, result, metadata), for the
\* one result of analyze_text and for each result of analyze_batch
add_tasks(texts, results, metadata, t) ==
    [i \in DOMAIN results |-> [result |-> results[i], metadata |-> metadata]]

\* the response object: HateSpeechResponse or BatchAnalysisResponse, the rate
\* hate_count / len(texts) kept as the pair of its two numbers
BuildResponse(h) ==
    IF h.kind = "analyze_text"
    THEN convert_result_to_response(h.results[1])
    ELSE [total_analyzed |-> Len(h.texts),
          hate_speech_detected |-> h.agg.hate_count,
          results |-> h.api_results,
          summary |-> [hate_speech_rate |-> <<h.agg.hate_count, Len(h.texts)>>,
                       categories_detected |-> h.agg.categories,
                       severity_breakdown |-> h.agg.severities]]

\* the writes queued and not yet run, over all requests answered
RECURSIVE PendingWrites(_)
PendingWrites(ts) ==
    IF ts = <<>> THEN 0 ELSE Len(Head(ts).pending) + PendingWrites(Tail(ts))

\* a process whose two singletons exist and whose database is new
InitApi ==
    /\ kwfile \in ApiSources
    /\ keywords \in Orderings(load_keywords(kwfile))
    /\ model \in ApiModels
    /\ seen = [t \in Texts |-> None]
    /\ now = 0
    /\ ret = NoRet
    /\ batch = IdleBatch
    /\ environ = [c \in Credentials |-> Unset]
    /\ db = <<>>
    /\ NoRequests
    /\ NoWriters
    /\ NoGetters

\* the router calls analyze_text or analyze_batch with a validated request
Receive ==
    \E req \in ApiRequests :
        /\ handler.pc = "idle"
        /\ req.store => Len(db) + PendingWrites(tasks) + Len(req.texts) <= MaxRows
        /\ handler' = [pc |-> "detect", kind |-> req.kind, texts |-> req.texts,
                       store |-> req.store, user |-> req.user,
                       results |-> <<>>, api_results |-> <<>>, agg |-> EmptyAgg,
                       queued |-> <<>>, response |-> None]
        /\ UNCHANGED <<keywords, model, now, ret, batch, environ, db, kwfile, seen,
                       tasks, connVars, singletonVars>>

\* result = detector.detect_hate_speech(request.text), or
\* results = detector.batch_detect(request.texts)
Detect ==
    /\ handler.pc = "detect"
    /\ handler' = [handler EXCEPT
                     !.results = IF handler.kind = "analyze_text"
                                 THEN <<detect_hate_speech(handler.texts[1], now).value>>
                                 ELSE batch_detect(handler.texts, now),
                     !.pc = IF handler.kind = "analyze_text" THEN "queue" ELSE "aggregate"]
    /\ UNCHANGED <<keywords, model, now, ret, batch, environ, db, kwfile, seen,
                   tasks, connVars, singletonVars>>

\* analyze_batch: the loop that fills api_results, hate_count, categories and
\* severities
AggregateResults ==
    /\ handler.pc = "aggregate"
    /\ handler' = [handler EXCEPT
                     !.api_results = [i \in DOMAIN handler.results |->
                                        convert_result_to_response(handler.results[i])],
                     !.agg = Aggregate(handler.results, EmptyAgg),
                     !.pc = "queue"]
    /\ UNCHANGED <<keywords, model, now, ret, batch, environ, db, kwfile, seen,
                   tasks, connVars, singletonVars>>

\* if request.store_result(s): the writes are added to background_tasks
QueueWrites ==
    /\ handler.pc = "queue"
    /\ handler' = [handler EXCEPT
                     !.queued = IF handler.store
                                THEN add_tasks(handler.texts, handler.results,
                                               ApiMetadata(handler.user), now)
                                ELSE <<>>,
                     !.pc = "respond"]
    /\ UNCHANGED <<keywords, model, now, ret, batch, environ, db, kwfile, seen,
                   tasks, connVars, singletonVars>>

\* response = convert_result_to_response(...), or the summary and
\* BatchAnalysisResponse(...)
Respond ==
    /\ handler.pc = "respond"
    /\ handler' = [handler EXCEPT !.response = Some(BuildResponse(handler)),
                                  !.pc = "return"]
    /\ UNCHANGED <<keywords, model, now, ret, batch, environ, db, kwfile, seen,
                   tasks, connVars, singletonVars>>

\* return response: the response is sent, and the background tasks of the
\* request, if it has any, are handed to the runner
Return ==
    /\ handler.pc = "return"
    /\ tasks' = IF handler.queued = <<>>
                THEN tasks
                ELSE Append(tasks, [pending |-> handler.queued])
    /\ handler' = IdleHandler
    /\ UNCHANGED <<keywords, model, now, ret, batch, environ, db, kwfile, seen,
                   connVars, singletonVars>>

\* tasks without the k-th entry
Without(ts, k) == SubSeq(ts, 1, k - 1) \o SubSeq(ts, k + 1, Len(ts))

\* the runner calls the next store_detection of an answered request; when it
\* raises, the rest of that request's tasks is not run
RunTaskWith(k, ok) ==
    /\ tasks[k].pending # <<>>
    /\ LET task == Head(tasks[k].pending)
       IN  IF ok
           THEN /\ db' = ExecuteInsert(db, task.result, task.metadata)
                /\ tasks' = IF Len(tasks[k].pending) = 1
                            THEN Without(tasks, k)
                            ELSE [tasks EXCEPT ![k].pending = Tail(@)]
           ELSE /\ db' = db
                /\ tasks' = Without(tasks, k)
    /\ UNCHANGED <<keywords, model, now, ret, batch, environ, kwfile, seen,
                   handler, connVars, singletonVars>>

RunTask ==
    \E k \in DOMAIN tasks, ok \in BOOLEAN : RunTaskWith(k, ok)

NextApi ==
    \/ Receive
    \/ Detect
    \/ AggregateResults
    \/ QueueWrites
    \/ Respond
    \/ Return
    \/ RunTask

SpecApi == InitApi /\ [][NextApi]_vars

\* the runner calls the next store_detection, and the database takes the row
RunTaskStored ==
    \E k \in DOMAIN tasks : RunTaskWith(k, TRUE)

\* the endpoints while no store_detection fails. The runner is started for
\* every response that carries tasks and runs them one after another, so a
\* pending write does not wait for ever
NextApiStored ==
    \/ Receive
    \/ Detect
    \/ AggregateResults
    \/ QueueWrites
    \/ Respond
    \/ Return
    \/ RunTaskStored

\* the same process with a model that answers and finds "ok" clean
InitApiStored ==
    /\ InitApi
    /\ model \in StoreModels
    /\ model.out[TextOk].pred = 0

SpecApiStored == InitApiStored /\ [][NextApiStored]_vars /\ WF_vars(RunTaskStored)

\* ====================================================== concurrent writers
\* a variant of the database without a write lock
CanWrite_unlocked(w) == TRUE

\* SQLite lets one connection at a time hold the RESERVED lock a write
\* statement needs
CanWrite(w) == dblock = None

\* the calls have ended, by return or by exception
Ended(pc) == pc \in {"done", "raised"}

\* a process whose store exists and is empty, before any store_detection
InitWriters ==
    /\ kwfile = [exists |-> TRUE, json |-> TRUE, items |-> <<KwBad>>]
    /\ keywords = <<KwBad>>
    /\ model \in StoreModels
    /\ seen = [t \in Texts |-> None]
    /\ now = 0
    /\ ret = NoRet
    /\ batch = IdleBatch
    /\ environ = [c \in Credentials |-> Unset]
    /\ db = <<>>
    /\ NoRequests
    /\ NoWriters
    /\ NoGetters

\* thread w enters store_detection(result, metadata): sqlite3.connect and
\* conn.cursor()
WriterConnect(w) ==
    \E text \in Texts, metadata \in MetadataArgs :
        /\ writers[w].pc = "idle"
        /\ writers' = [writers EXCEPT ![w] =
                         [pc |-> "connected",
                          result |-> detect_hate_speech(text, now).value,
                          metadata |-> metadata,
                          row |-> None]]
        /\ UNCHANGED <<keywords, model, now, ret, batch, environ, db, kwfile, seen,
                       apiVars, dblock, singletonVars>>

\* cursor.execute(INSERT ...): the implicit BEGIN, the write lock, and the row
\* with the next id, in the connection's transaction only
WriterExecute(w) ==
    /\ writers[w].pc = "connected"
    /\ CanWrite(w)
    /\ dblock' = Some(w)
    /\ writers' = [writers EXCEPT
                     ![w].pc = "inserted",
                     ![w].row = Some(InsertedRow(Len(db) + 1, writers[w].result,
                                                 writers[w].metadata))]
    /\ UNCHANGED <<keywords, model, now, ret, batch, environ, db, kwfile, seen,
                   apiVars, singletonVars>>

\* cursor.execute(INSERT ...) while another connection holds the lock for
\* longer than the busy timeout: sqlite3.OperationalError, database is locked
WriterTimeout(w) ==
    /\ writers[w].pc = "connected"
    /\ ~CanWrite(w)
    /\ writers' = [writers EXCEPT ![w].pc = "raised"]
    /\ UNCHANGED <<keywords, model, now, ret, batch, environ, db, kwfile, seen,
                   apiVars, dblock, singletonVars>>

\* conn.commit(): the row becomes part of the database and the lock is given up
WriterCommit(w) ==
    /\ writers[w].pc = "inserted"
    /\ db' = Append(db, writers[w].row[1])
    /\ dblock' = None
    /\ writers' = [writers EXCEPT ![w].pc = "committed"]
    /\ UNCHANGED <<keywords, model, now, ret, batch, environ, kwfile, seen,
                   apiVars, singletonVars>>

\* conn.close() and return
WriterClose(w) ==
    /\ writers[w].pc = "committed"
    /\ writers' = [writers EXCEPT ![w].pc = "done"]
    /\ UNCHANGED <<keywords, model, now, ret, batch, environ, db, kwfile, seen,
                   apiVars, dblock, singletonVars>>

NextWriters ==
    \E w \in Threads :
        \/ WriterConnect(w)
        \/ WriterExecute(w)
        \/ WriterTimeout(w)
        \/ WriterCommit(w)
        \/ WriterClose(w)

SpecWriters == InitWriters /\ [][NextWriters]_vars

\* ============================================================== singletons
\* the two getters and the function attribute each keeps its instance in
Getters == {"detector", "db_manager"}

\* a process in which neither getter has been called
InitSingletons ==
    /\ kwfile = [exists |-> TRUE, json |-> TRUE, items |-> <<KwBad>>]
    /\ keywords = <<KwBad>>
    /\ model \in StoreModels
    /\ seen = [t \in Texts |-> None]
    /\ now = 0
    /\ ret = NoRet
    /\ batch = IdleBatch
    /\ environ = [c \in Credentials |-> Unset]
    /\ db = <<>>
    /\ NoRequests
    /\ NoWriters
    /\ NoGetters

\* thread t enters get_detector() or get_db_manager()
GetterCall(t) ==
    \E g \in Getters :
        /\ threads[t].pc = "idle"
        /\ threads' = [threads EXCEPT ![t] = [pc |-> "check", getter |-> g, got |-> None]]
        /\ UNCHANGED <<keywords, model, now, ret, batch, environ, db, kwfile, seen,
                       apiVars, connVars, attrs>>

\* if not hasattr(get_detector, "detector"):
GetterCheck(t) ==
    /\ threads[t].pc = "check"
    /\ threads' = [threads EXCEPT
                     ![t].pc = IF attrs[threads[t].getter] = None
                               THEN "construct" ELSE "return"]
    /\ UNCHANGED <<keywords, model, now, ret, batch, environ, db, kwfile, seen,
                   apiVars, connVars, attrs>>

\* get_detector.detector = CameroonHateSpeechDetector(...): a new instance,
\* numbered in the order of the assignments, replaces what the attribute held
GetterConstruct(t) ==
    /\ threads[t].pc = "construct"
    /\ LET g == threads[t].getter
       IN  attrs' = [attrs EXCEPT ![g] = IF @ = None THEN Some(1) ELSE Some(@[1] + 1)]
    /\ threads' = [threads EXCEPT ![t].pc = "return"]
    /\ UNCHANGED <<keywords, model, now, ret, batch, environ, db, kwfile, seen,
                   apiVars, connVars>>

\* return get_detector.detector
GetterReturn(t) ==
    /\ threads[t].pc = "return"
    /\ threads' = [threads EXCEPT ![t].pc = "returned",
                                  ![t].got = attrs[threads[t].getter]]
    /\ UNCHANGED <<keywords, model, now, ret, batch, environ, db, kwfile, seen,
                   apiVars, connVars, attrs>>

\* the caller goes on, and the thread is free for the next call
GetterDone(t) ==
    /\ threads[t].pc = "returned"
    /\ threads' = [threads EXCEPT ![t] = IdleThread]
    /\ UNCHANGED <<keywords, model, now, ret, batch, environ, db, kwfile, seen,
                   apiVars, connVars, attrs>>

NextSingletons ==
    \E t \in Threads :
        \/ GetterCall(t)
        \/ GetterCheck(t)
        \/ GetterConstruct(t)
        \/ GetterReturn(t)
        \/ GetterDone(t)

SpecSingletons == InitSingletons /\ [][NextSingletons]_vars

\* ===================================================== fusion engine claims
\* the two signals behind the last detect_hate_speech call
IsDetect == ret.op = "detect_hate_speech"
NoneRaised(text) == ~detect_keywords(text).raised /\ ~classify(text).raised
KeywordHit(text) == Len(detect_keywords(text).value) > 0
Label(text) == classify(text).pred

\* C1: with no keyword match and classifier label 0 the result is not hate
\* speech, category none, severity none, confidence 0.0, whatever confidence
\* the classifier reported.
C1_NoSignalIsClean ==
    (IsDetect /\ NoneRaised(ret.arg) /\ ~KeywordHit(ret.arg) /\ Label(ret.arg) = 0)
        => /\ ~ret.raised
           /\ ret.value.is_hate_speech = FALSE
           /\ ret.value.category = "none"
           /\ ret.value.severity = "none"
           /\ ret.value.confidence = 0

C1_Witness ==
    /\ IsDetect /\ NoneRaised(ret.arg) /\ ~KeywordHit(ret.arg) /\ Label(ret.arg) = 0
    /\ keywords # <<>>
    /\ classify(ret.arg).conf > 0
    /\ ret.value.confidence = 0

\* C2: with at least one keyword match and classifier label 0 the result is
\* hate speech, category keywords, severity medium, confidence exactly 0.7,
\* whatever confidence the classifier reported.
C2_KeywordOnly ==
    (IsDetect /\ NoneRaised(ret.arg) /\ KeywordHit(ret.arg) /\ Label(ret.arg) = 0)
        => /\ ~ret.raised
           /\ ret.value.is_hate_speech = TRUE
           /\ ret.value.category = "keywords"
           /\ ret.value.severity = "medium"
           /\ ret.value.confidence = 7

C2_Witness ==
    /\ IsDetect /\ NoneRaised(ret.arg) /\ KeywordHit(ret.arg) /\ Label(ret.arg) = 0
    /\ classify(ret.arg).conf # 7
    /\ ret.value.confidence = 7

\* C3: with no keyword match and classifier label 1 with confidence c the
\* result is hate speech, category twitter_model, severity medium, confidence c.
C3_ModelOnly ==
    (IsDetect /\ NoneRaised(ret.arg) /\ ~KeywordHit(ret.arg) /\ Label(ret.arg) = 1)
        => /\ ~ret.raised
           /\ ret.value.is_hate_speech = TRUE
           /\ ret.value.category = "twitter_model"
           /\ ret.value.severity = "medium"
           /\ ret.value.confidence = classify(ret.arg).conf

C3_Witness ==
    /\ IsDetect /\ NoneRaised(ret.arg) /\ ~KeywordHit(ret.arg) /\ Label(ret.arg) = 1
    /\ ret.value.severity = "medium"
    /\ ret.value.confidence = 8

\* C4: with at least one keyword match and classifier label 1 with confidence
\* c the result is hate speech, severity high, category twitter_model (not
\* keywords) and confidence c (not the fixed 0.7).
C4_BothSignals ==
    (IsDetect /\ NoneRaised(ret.arg) /\ KeywordHit(ret.arg) /\ Label(ret.arg) = 1)
        => /\ ~ret.raised
           /\ ret.value.is_hate_speech = TRUE
           /\ ret.value.severity = "high"
           /\ ret.value.category = "twitter_model"
           /\ ret.value.confidence = classify(ret.arg).conf

C4_Witness ==
    /\ IsDetect /\ NoneRaised(ret.arg) /\ KeywordHit(ret.arg) /\ Label(ret.arg) = 1
    /\ ret.value.severity = "high"
    /\ ret.value.confidence = 6

\* the default clean result, up to the literal of its explanation
IsDefaultClean(r, lit) ==
    /\ r.is_hate_speech = FALSE
    /\ r.confidence = 0
    /\ r.detected_keywords = <<>>
    /\ r.category = "none"
    /\ r.severity = "none"
    /\ r.explanation = [lit |-> lit, joined |-> <<>>]

\* C5 as stated: when the keyword matcher or the classifier raises, the call
\* does not raise and returns the default clean result with the explanation
\* "no result - default clean".
C5_AsStated ==
    (IsDetect /\ ~NoneRaised(ret.arg))
        => ~ret.raised /\ IsDefaultClean(ret.value, "no result - default clean")

\* C5 amended: when the keyword matcher or the classifier raises, whatever the
\* other produced, the call does not raise and returns the default clean
\* result, whose explanation is "No result - default clean".
C5_FailureIsDefaultClean ==
    (IsDetect /\ ~NoneRaised(ret.arg))
        => ~ret.raised /\ IsDefaultClean(ret.value, "No result - default clean")

\* the classifier failed after the keyword matcher had found a keyword
C5_Witness ==
    /\ IsDetect
    /\ classify(ret.arg).raised
    /\ ~detect_keywords(ret.arg).raised
    /\ KeywordHit(ret.arg)
    /\ ret.value.severity = "none"

\* two results that differ in their timestamp at most
SameButTimestamp(r1, r2) == [r1 EXCEPT !.timestamp = 0] = [r2 EXCEPT !.timestamp = 0]

\* C6: batch_detect returns one result per input text, in input order, the
\* i-th equal (timestamp aside) to what detect_hate_speech returns for the
\* i-th text alone; a position whose detection failed holds the default
\* clean result.
C6_BatchIsPointwise ==
    ret.op = "batch_detect"
        => /\ ~ret.raised
           /\ Len(ret.value) = Len(ret.arg)
           /\ \A i \in DOMAIN ret.arg :
                 /\ ret.value[i].text = ret.arg[i]
                 /\ SameButTimestamp(ret.value[i], detect_hate_speech(ret.arg[i], 0).value)
                 /\ ~NoneRaised(ret.arg[i])
                       => IsDefaultClean(ret.value[i], "No result - default clean")

\* a batch in which one position failed and another was found to be hate speech
C6_Witness ==
    /\ ret.op = "batch_detect"
    /\ Len(ret.arg) >= 2
    /\ ~NoneRaised(ret.arg[1])
    /\ ret.value[1].severity = "none"
    /\ ret.value[2].is_hate_speech
    /\ ret.value[2].timestamp > ret.value[1].timestamp

\* the keyword file is missing, is not JSON, or holds an item set() cannot take
Unloadable(src) ==
    \/ ~src.exists
    \/ ~src.json
    \/ \E i \in DOMAIN src.items : src.items[i].type = "list"

\* C14: when the keyword source is missing or malformed the detector holds the
\* empty keyword set; detect_keywords then finds nothing in any text, and
\* every verdict is the classifier's alone (the rows without a keyword hit).
C14_NoKeywordsWithoutSource ==
    Unloadable(kwfile)
        => /\ keywords = <<>>
           /\ \A t \in Texts : detect_keywords(t) = [raised |-> FALSE, value |-> <<>>]
           /\ IsDetect
                 => /\ ~ret.raised
                    /\ ret.value.detected_keywords = <<>>
                    /\ Verdict(ret.value) =
                          IF classify(ret.arg).raised \/ Label(ret.arg) = 0
                          THEN <<FALSE, "none", "none", 0>>
                          ELSE <<TRUE, "twitter_model", "medium", classify(ret.arg).conf>>

\* the file is not JSON, and a text that holds "bad" is judged by the
\* classifier alone
C14_Witness ==
    /\ kwfile.exists /\ ~kwfile.json
    /\ IsDetect
    /\ ret.arg = TextBad
    /\ ret.value.category = "twitter_model"
    /\ ret.value.severity = "medium"

LowerChar(c) == IF c \in 65..90 THEN c + 32 ELSE c

\* k, lower-cased, is a run of consecutive characters of t, lower-cased
Occurs(k, t) ==
    \E i \in 0..(Len(t) - Len(k)) :
        \A j \in 1..Len(k) : LowerChar(t[i + j]) = LowerChar(k[j])

IsPredict == ret.op = "predict"
AllCredentials == \A c \in Credentials : environ[c].set /\ environ[c].val # <<>>
GotAnswer ==
    /\ ret.arg.outcome.kind = "response"
    /\ ret.arg.outcome.status = 200
    /\ ret.arg.outcome.body.parse = "ok"

\* C7: with all four credentials present and a status-200 response with a
\* parseable answer, predict maps the trimmed, lower-cased answer: "false" to
\* (misinformation, 0.7, medium), "unverifiable" to (unverified, 0.0, unknown),
\* "true" or anything else to (no_misinformation, 0.0, low).
C7_AnswerMapping ==
    (IsPredict /\ AllCredentials /\ GotAnswer)
        => /\ ~ret.raised
           /\ ret.value = CASE ret.arg.outcome.body.word = "false"
                                  -> <<"misinformation", 7, "medium">>
                             [] ret.arg.outcome.body.word = "unverifiable"
                                  -> <<"unverified", 0, "unknown">>
                             [] OTHER -> <<"no_misinformation", 0, "low">>

\* the service answered " False\n", which is "false" once trimmed and lower-cased
C7_Witness ==
    /\ IsPredict /\ AllCredentials /\ GotAnswer
    /\ ret.arg.outcome.body.word = "false"
    /\ Len(ret.arg.outcome.body.content) = 7
    /\ ret.value[1] = "misinformation"

\* C8: predict never raises, and returns (unverified, 0.0, unknown) when a
\* credential is absent (and then issues no request), when the remote call
\* raises or times out, when the status is not 200, and when a status-200
\* body cannot be parsed into an answer.
C8_DegradesToUnverified ==
    IsPredict
        => /\ ~ret.raised
           /\ ~AllCredentials
                 => ret.value = <<"unverified", 0, "unknown">> /\ ~ret.arg.sent
           /\ (\/ ret.arg.outcome.kind = "exception"
               \/ ret.arg.outcome.status # 200
               \/ ret.arg.outcome.body.parse # "ok")
                 => ret.value = <<"unverified", 0, "unknown">>

\* a 500 response whose body would have read "true", with all credentials set
C8_Witness ==
    /\ IsPredict /\ AllCredentials
    /\ ret.arg.sent
    /\ ret.arg.outcome.kind = "response"
    /\ ret.arg.outcome.status = 500
    /\ ret.arg.outcome.body.word = "true"
    /\ ret.value[1] = "unverified"

\* what the implementation that was not called gives for the same text,
\* credentials and remote outcome
OtherPredict ==
    IF ret.arg.impl = "app/models/misinformation.py"
    THEN predict_ca(ret.arg.text, ret.arg.outcome)
    ELSE predict_app(ret.arg.text, ret.arg.outcome)

\* C24: for the same text, credentials and remote outcome the two predict
\* implementations return the same triple, neither raises, both issue the
\* request or neither does, and the triple is one of (misinformation, 0.7,
\* medium), (unverified, 0.0, unknown), (no_misinformation, 0.0, low).
C24_PredictsAgree ==
    IsPredict
        => /\ ~ret.raised /\ ~OtherPredict.raised
           /\ OtherPredict.value = ret.value
           /\ OtherPredict.sent = ret.arg.sent
           /\ ret.value \in { <<"misinformation", 7, "medium">>,
                               <<"unverified", 0, "unknown">>,
                               <<"no_misinformation", 0, "low">> }

\* models/content_analyzer.py was called with all credentials set and the
\* remote call raised
C24_Witness ==
    /\ IsPredict /\ AllCredentials
    /\ ret.arg.impl = "models/content_analyzer.py"
    /\ ret.arg.outcome.kind = "exception"
    /\ ret.arg.sent
    /\ ret.value = <<"unverified", 0, "unknown">>

\* ============================================================= store claims
\* the instant an ISO string of the store stands for
TimeOf(iso) == CHOOSE t \in 0..MaxTime : IsoFormat(t) = iso

\* the stored rows whose instant is strictly later than now minus the window
\* (in clock units)
RowsInWindow(window) ==
    {i \in DOMAIN db : TimeOf(db[i].timestamp) > now - window * TicksPerUnit}

\* C9: get_recent_detections(hours, hate_only) returns exactly the stored
\* records whose timestamp is strictly later than now minus the window and,
\* when hate_only is true, whose is_hate_speech is true, each once, newest
\* first.
C9_RecentIsWindowNewestFirst ==
    ret.op = "get_recent_detections"
        => LET expected == {i \in RowsInWindow(ret.arg.hours) :
                               ret.arg.hate_only => db[i].is_hate_speech = 1}
               got == ret.value
           IN  /\ ~ret.raised
               /\ Len(got) = Cardinality(expected)
               /\ {got[k].id : k \in DOMAIN got} = {db[i].id : i \in expected}
               /\ \A k \in DOMAIN got : got[k] = db[got[k].id]
               /\ \A k, l \in DOMAIN got :
                     k < l => TimeOf(got[k].timestamp) >= TimeOf(got[l].timestamp)

\* two hate-speech rows in the window, the second one stored being the newer
\* one and returned first
C9_Witness ==
    /\ ret.op = "get_recent_detections"
    /\ ret.arg.hate_only
    /\ ret.arg.hours = 1
    /\ Len(db) = 2
    /\ Len(ret.value) = 2
    /\ ret.value[1].id = 2
    /\ TimeOf(ret.value[1].timestamp) > TimeOf(ret.value[2].timestamp)

\* the sum of the totals of a breakdown
RECURSIVE SumTotals(_)
SumTotals(groups) ==
    IF Len(groups) = 0 THEN 0 ELSE groups[1].total + SumTotals(Tail(groups))

\* C10: the breakdown of get_statistics(window) has at most one group per
\* (category, platform) pair, a null platform being a value of its own, and
\* the groups' totals sum to the number of stored records in the window.
C10_GroupsPartitionWindow ==
    ret.op = "get_statistics"
        => LET b == ret.value.breakdown
           IN  /\ ~ret.raised
               /\ \A k, l \in DOMAIN b :
                     k # l => <<b[k].category, b[k].platform>> # <<b[l].category, b[l].platform>>
               /\ SumTotals(b) = Cardinality(RowsInWindow(ret.arg.days))

\* two rows of one category in the window, one with a platform and one
\* without: two groups
C10_Witness ==
    /\ ret.op = "get_statistics"
    /\ ret.arg.days = 1
    /\ Len(db) = 2
    /\ db[1].category = db[2].category
    /\ Len(ret.value.breakdown) = 2
    /\ \E k \in DOMAIN ret.value.breakdown : ret.value.breakdown[k].platform = None

\* the sum of the hate_speech counts of a breakdown
RECURSIVE SumHateSpeech(_)
SumHateSpeech(groups) ==
    IF Len(groups) = 0 THEN 0 ELSE groups[1].hate_speech + SumHateSpeech(Tail(groups))

\* the number of records get_recent_detections returns at this instant for
\* the window of the same length
RecentCount(window, hate_only) ==
    Cardinality({i \in DOMAIN db : recent_where(db[i], CutoffTime(window), hate_only)})

\* C22: at one instant and for one window, every group of get_statistics has
\* 0 <= hate_speech <= total, the groups' hate_speech counts sum to the number
\* of records get_recent_detections returns with hate_only = true, and the
\* totals sum to the number it returns with hate_only = false.
C22_StatisticsMatchRecent ==
    ret.op = "get_statistics"
        => LET b == ret.value.breakdown
           IN  /\ \A k \in DOMAIN b : 0 <= b[k].hate_speech /\ b[k].hate_speech <= b[k].total
               /\ SumHateSpeech(b) = RecentCount(ret.arg.days, TRUE)
               /\ SumTotals(b) = RecentCount(ret.arg.days, FALSE)

\* two records, the older one at the cutoff instant and so outside the
\* window, the newer one hate speech and inside
C22_Witness ==
    /\ ret.op = "get_statistics"
    /\ ret.arg.days = 1
    /\ Len(db) = 2
    /\ \E i \in DOMAIN db : db[i].timestamp = CutoffTime(1)
    /\ SumTotals(ret.value.breakdown) = 1
    /\ SumHateSpeech(ret.value.breakdown) = 1

\* C23: the stored records being results of detect_hate_speech, a group of
\* get_statistics with category none has hate_speech = 0 and a group with
\* category keywords or twitter_model has hate_speech = total; there is no
\* other category, so no group mixes hate and non-hate records.
C23_GroupsHomogeneous ==
    ret.op = "get_statistics"
        => \A k \in DOMAIN ret.value.breakdown :
               LET g == ret.value.breakdown[k]
               IN  /\ g.category \in {"none", "keywords", "twitter_model"}
                   /\ g.category = "none" => g.hate_speech = 0
                   /\ g.category \in {"keywords", "twitter_model"} => g.hate_speech = g.total
                   /\ g.hate_speech \in {0, g.total}

\* a group of clean records and a group of keyword detections side by side
C23_Witness ==
    /\ ret.op = "get_statistics"
    /\ Len(ret.value.breakdown) = 2
    /\ \E k \in DOMAIN ret.value.breakdown :
          /\ ret.value.breakdown[k].category = "none"
          /\ ret.value.breakdown[k].total = 1
    /\ \E k \in DOMAIN ret.value.breakdown :
          /\ ret.value.breakdown[k].category = "keywords"
          /\ ret.value.breakdown[k].hate_speech = 1

\* C11: the store is append-only. Every step keeps the rows already stored,
\* unchanged and in place, and adds at most one; get_recent_detections,
\* get_statistics and init_database on the existing database leave the store
\* as it is; a store_detection that returns adds exactly one row, which
\* carries the result's text, is_hate_speech, confidence, category, severity,
\* explanation and timestamp and the metadata's user_id, platform and post_id,
\* NULL where the metadata has none.
C11_AppendOnly ==
    [][ /\ Len(db') \in {Len(db), Len(db) + 1}
        /\ \A i \in DOMAIN db : db'[i] = db[i]
        /\ ret'.op \in {"get_recent_detections", "get_statistics", "init_database"}
              => db' = db
        /\ (ret'.op = "store_detection" /\ ret'.raised) => db' = db
        /\ (ret'.op = "store_detection" /\ ~ret'.raised)
              => /\ Len(db') = Len(db) + 1
                 /\ LET row == db'[Len(db')]
                        r == ret'.arg.result
                        md == ret'.arg.metadata
                        field(name) == IF md = None THEN None ELSE md[1][name]
                    IN  /\ row.text = r.text
                        /\ row.is_hate_speech = (IF r.is_hate_speech THEN 1 ELSE 0)
                        /\ row.confidence = r.confidence
                        /\ row.category = r.category
                        /\ row.severity = r.severity
                        /\ row.explanation = r.explanation
                        /\ row.timestamp = IsoFormat(r.timestamp)
                        /\ row.user_id = field("user_id")
                        /\ row.platform = field("platform")
                        /\ row.post_id = field("post_id")
      ]_vars

\* a second record of the same text has been appended after the first, with
\* a platform and without a post_id, and the store has been read since
C11_Witness ==
    /\ Len(db) = 2
    /\ db[1].text = db[2].text
    /\ db[1].platform = None
    /\ db[2].platform = Some("twitter")
    /\ db[2].post_id = None
    /\ ret.op = "get_statistics"

\* C12, as stated: a persistence failure inside store_detection is swallowed,
\* so no call of store_detection raises to its invoker.
C12_AsStated ==
    ret.op = "store_detection" => ~ret.raised

\* ========================================================= endpoint claims
\* the invariants of one verdict on text, the two signals being what the
\* keyword matcher and the classifier give for it
VerdictInvariants(text, is_hate_speech, category, severity) ==
    /\ is_hate_speech => category # "none"
    /\ severity = "high" => (Label(text) = 1 /\ KeywordHit(text))
    /\ severity = "medium" => ((Label(text) = 1) # KeywordHit(text))
    /\ severity = "none" =>
          \/ Label(text) # 1 /\ ~KeywordHit(text)
          \/ ~NoneRaised(text)

\* C13: every result detect_hate_speech returned to a handler, and every stored
\* record, satisfies: hate speech implies a category other than none; high
\* only with a positive classifier and a keyword match; medium only with
\* exactly one of the two; none only with neither, or when detection failed
\* and the default clean result was returned.
C13_VerdictInvariants ==
    /\ handler.pc # "idle"
          => \A i \in DOMAIN handler.results :
                 LET r == handler.results[i]
                 IN  VerdictInvariants(r.text, r.is_hate_speech, r.category, r.severity)
    /\ \A i \in DOMAIN db :
          VerdictInvariants(db[i].text, db[i].is_hate_speech = 1,
                            db[i].category, db[i].severity)

\* a high record and the record of a default clean result are both stored
C13_Witness ==
    /\ Len(db) = 2
    /\ db[1].severity = "high"
    /\ db[1].is_hate_speech = 1
    /\ db[2].severity = "none"
    /\ ~NoneRaised(db[2].text)

\* the handler has queued writes
HasQueued == handler.pc # "idle" /\ handler.queued # <<>>

\* C16, as stated: a write is queued only after the response of its request
\* has been prepared.
C16_AsStated ==
    HasQueued => handler.response # None

\* every queued write is for a result detection has returned
QueuedAfterDetection ==
    HasQueued
        => /\ Len(handler.results) = Len(handler.texts)
           /\ Len(handler.queued) = Len(handler.results)
           /\ \A i \in DOMAIN handler.queued :
                 /\ handler.queued[i].result = handler.results[i]
                 /\ handler.results[i] = detect_hate_speech(handler.texts[i], now).value

\* when the response is built the writes have been queued, and the response
\* is what detection alone gives, whatever the store and the runner hold
ResponseFromDetectionOnly ==
    (handler.pc # "idle" /\ handler.response # None)
        => LET rs == [i \in DOMAIN handler.texts |->
                        detect_hate_speech(handler.texts[i], now).value]
               resp == handler.response[1]
           IN  /\ handler.store => Len(handler.queued) = Len(handler.texts)
               /\ IF handler.kind = "analyze_text"
                  THEN resp = convert_result_to_response(rs[1])
                  ELSE resp.results = [i \in DOMAIN rs |-> convert_result_to_response(rs[i])]

\* a step that writes a row runs the first pending write of a request that
\* has been answered, and leaves the request in progress as it is
WriteRunsAfterReturn ==
    db' # db
        => /\ handler' = handler
           /\ \E k \in DOMAIN tasks :
                 LET task == Head(tasks[k].pending)
                 IN  /\ db' = Append(db, db'[Len(db')])
                     /\ db'[Len(db')].text = task.result.text
                     /\ db'[Len(db')].severity = task.result.severity
                     /\ db'[Len(db')].user_id = task.metadata[1].user_id

\* C16: in both request paths the writes are queued after detection of the
\* request has returned and before its response is built; a write is run
\* only for a request whose response has been returned; the response is
\* determined by detection alone.
C16_QueuedAfterDetectionRunAfterReturn ==
    /\ [](QueuedAfterDetection /\ ResponseFromDetectionOnly)
    /\ [][WriteRunsAfterReturn]_vars

\* one write has run, and the next request has queued its write and built
\* its response
C16_Witness ==
    /\ Len(db) = 1
    /\ handler.pc = "return"
    /\ handler.queued # <<>>
    /\ handler.response # None

\* the sum of the counts of a dict
RECURSIVE DictSum(_)
DictSum(d) ==
    IF DOMAIN d = {} THEN 0
    ELSE LET k == CHOOSE k \in DOMAIN d : TRUE
         IN  d[k] + DictSum([x \in (DOMAIN d) \ {k} |-> d[x]])

\* d counts, under each value of field, the hate-speech results of rs
IsHistogram(d, rs, field) ==
    LET hate == {i \in DOMAIN rs : rs[i].is_hate_speech}
    IN  /\ DOMAIN d = {rs[i][field] : i \in hate}
        /\ \A k \in DOMAIN d : d[k] = Cardinality({i \in hate : rs[i][field] = k})
        /\ "none" \notin DOMAIN d
        /\ DictSum(d) = Cardinality(hate)

\* C20: the batch summary is computed after batch_detect returned a result
\* for every text; total_analyzed is the number of texts and of results,
\* hate_speech_detected the number of hate-speech results, hate_speech_rate
\* that number over the number of texts, and each histogram counts exactly
\* the hate-speech results, sums to hate_speech_detected and has no key none.
C20_BatchSummary ==
    (handler.pc # "idle" /\ handler.kind = "analyze_batch")
        => /\ (handler.agg # EmptyAgg \/ handler.api_results # <<>> \/ handler.response # None)
                 => handler.results = batch_detect(handler.texts, now)
           /\ handler.response # None
                 => LET resp == handler.response[1]
                        rs == batch_detect(handler.texts, now)
                        hate == {i \in DOMAIN rs : rs[i].is_hate_speech}
                    IN  /\ resp.total_analyzed = Len(handler.texts)
                        /\ resp.total_analyzed = Len(resp.results)
                        /\ \A i \in DOMAIN rs : resp.results[i].text = handler.texts[i]
                        /\ resp.hate_speech_detected = Cardinality(hate)
                        /\ resp.summary.hate_speech_rate
                              = <<Cardinality(hate), Len(handler.texts)>>
                        /\ IsHistogram(resp.summary.categories_detected, rs, "category")
                        /\ IsHistogram(resp.summary.severity_breakdown, rs, "severity")

\* a batch of two texts, one of them hate speech by its keyword alone
C20_Witness ==
    /\ handler.pc = "return"
    /\ handler.kind = "analyze_batch"
    /\ Len(handler.texts) = 2
    /\ handler.response[1].hate_speech_detected = 1
    /\ DOMAIN handler.response[1].summary.categories_detected = {"keywords"}
    /\ handler.response[1].summary.severity_breakdown["medium"] = 1

\* ================================================ concurrent writer claims
\* the calls whose INSERT has been committed
Committed == {w \in Threads : writers[w].pc \in {"committed", "done"}}

\* C17, as stated: when N concurrent store_detection calls have ended, the
\* store holds exactly N new records.
C17_AsStated ==
    (\A w \in Threads : Ended(writers[w].pc)) => Len(db) = Cardinality(Threads)

\* C17: in every interleaving of concurrent store_detection calls, each call
\* that is not refused the write lock inserts exactly one complete row, and a
\* call that is refused raises and inserts nothing: the store holds one row
\* per committed call and no other, every row whole, the ids 1, 2, ... in
\* insert order; when every call has ended the rows are as many as the calls
\* that returned.
C17_OneRowPerCommittedCall ==
    /\ \A i \in DOMAIN db : db[i].id = i
    /\ Len(db) = Cardinality(Committed)
    /\ \A w \in Committed :
          /\ writers[w].row[1].id \in DOMAIN db
          /\ db[writers[w].row[1].id]
                = InsertedRow(writers[w].row[1].id, writers[w].result, writers[w].metadata)
    /\ \A w, v \in Committed : w # v => writers[w].row[1].id # writers[v].row[1].id
    /\ \A w \in Threads : writers[w].pc = "raised" => writers[w].row = None
    /\ (\A w \in Threads : Ended(writers[w].pc))
          => Len(db) = Cardinality({w \in Threads : writers[w].pc = "done"})

\* one call has returned with row 1 stored while another call, entered
\* before the first had committed or after, holds the lock with row 2 not
\* yet committed
C17_Witness ==
    \E w, v \in Threads :
        /\ writers[w].pc = "done"
        /\ writers[v].pc = "inserted"
        /\ writers[v].row[1].id = 2
        /\ Len(db) = 1
        /\ dblock = Some(v)

\* ======================================================= singleton claims
\* C18, as stated: in every interleaving of calls to get_detector and
\* get_db_manager each of the two is constructed at most once, and every call
\* returns that one instance.
C18_AsStated ==
    /\ \A g \in Getters : attrs[g] \in {None, Some(1)}
    /\ \A t \in Threads : threads[t].pc = "returned" => threads[t].got = Some(1)

\* ===================================================== write queue claims
\* the records stored and the writes still to run
StoredOrPending == Len(db) + PendingWrites(tasks)

\* what the store flag makes of the queue of the request in progress
FlagDecidesQueue ==
    (handler.pc \in {"respond", "return"})
        => IF handler.store
           THEN /\ Len(handler.queued) = Len(handler.results)
                /\ Len(handler.results) = Len(handler.texts)
                /\ \A i \in DOMAIN handler.queued :
                      handler.queued[i].result = handler.results[i]
           ELSE handler.queued = <<>>

\* a step hands over exactly the writes of a request that asked for them, a
\* write that runs adds one record, the record of the request's next result,
\* and nothing else touches the store or the queues
QueueAccounting ==
    /\ handler.pc = "return" /\ handler'.pc = "idle"
          => /\ db' = db
             /\ IF handler.store
                THEN /\ tasks' = Append(tasks, [pending |-> handler.queued])
                     /\ PendingWrites(tasks') = PendingWrites(tasks) + Len(handler.results)
                ELSE tasks' = tasks
    /\ ~(handler.pc = "return" /\ handler'.pc = "idle")
          => Len(db') + PendingWrites(tasks') = StoredOrPending
    /\ db' # db
          => \E k \in DOMAIN tasks :
                 /\ db' = Append(db, InsertedRow(Len(db) + 1, Head(tasks[k].pending).result,
                                                 Head(tasks[k].pending).metadata))
                 /\ PendingWrites(tasks') = PendingWrites(tasks) - 1

\* C21: a request with the store flag false queues no write and leaves the
\* store and the queues as they are; a request with the flag true queues one
\* write per result, in result order; and while no store_detection fails
\* every queued write is eventually run, so the store comes to hold one new
\* record for each result of the request.
C21_FlagQueuesAndWritesRun ==
    /\ []FlagDecidesQueue
    /\ [][QueueAccounting]_vars
    /\ \A n \in 0..MaxRows : (StoredOrPending = n) ~> (Len(db) >= n)

\* a batch of two texts has been answered and its two writes wait, in the
\* order of the results
C21_Witness ==
    /\ Len(tasks) = 1
    /\ Len(tasks[1].pending) = 2
    /\ tasks[1].pending[1].result.text = TextBad
    /\ tasks[1].pending[2].result.text = TextOk
    /\ db = <<>>

====
